---- MODULE Spec2Model ----
(***************************************************************************)
(* rust-try-catch: the try_catch! construct, throw, and __throw_driver,    *)
(* modelled as one call stack that unwinds.                                *)
(*                                                                         *)
(* A frame of `stack` is either one expansion of try_catch! that is being  *)
(* executed or one invocation of __throw_driver (a throw_guard-wrapped     *)
(* function).  `ctl` says what the thread is doing: running the body of    *)
(* the top frame, carrying a value out of a construct, or unwinding with a *)
(* panic payload.  User code (try bodies, clause bodies, finally bodies)   *)
(* is an input: it completes with a value, throws, panics, or enters a     *)
(* nested construct or wrapped function.                                   *)
(***************************************************************************)
EXTENDS Integers, Sequences, FiniteSets, TLC

\* ---------------------------------------------------------------- bounds
\* frames (constructs and wrapped functions) live on the call stack at once
MaxDepth == 2
\* blocks (try, catch, catch exception, catch panic, finally) of all the
\* constructs that are live at once
MaxBlocks == 5
\* distinct values a body returns or throws, per type
MaxVal == 2
\* polls of the future of an async throw_guard function
MaxPolls == 3

\* the types a value can be thrown as and a clause can be declared for
Types == {"A", "B"}
Vals == 1..MaxVal

VARIABLES
    stack,      \* the call stack, innermost frame last
    ctl,        \* what the thread is doing
    last,       \* the step that led here: what it intercepted and what it chose
    raised,     \* the payload of the unwind in flight as it was when raised
    crossed,    \* the latest unwind has left a throw_guard-wrapped function
    rejected,   \* the constructs whose const block failed compilation
    fut         \* the future of an async throw_guard function, when there is one

vars == <<stack, ctl, last, raised, crossed, rejected, fut>>

\* ------------------------------------------------------------- payloads
NoPayload == [kind |-> "none"]
NoBox == [ty |-> "()", val |-> 0]

\* std::any::type_name::<T>()
type_name(T) == "type_name::" \o T

\* Backtrace::force_capture(): the frames live at the call
force_capture(stk) == Len(stk)

\* struct Thrown { source, type_name, backtrace }
Thrown(source, tn, bt) ==
    [kind |-> "Thrown", source |-> source, type_name |-> tn, backtrace |-> bt]

\* a panic payload that is not a Thrown: the message of a panic!
PanicPayload(msg) == [kind |-> "panic", msg |-> msg]

\* throw(x): the payload resume_unwind is called with
throw(T, v, stk) ==
    Thrown([ty |-> T, val |-> v], type_name(T), force_capture(stk))

\* a panic!("...") of user code
UserPanic == PanicPayload(<<"boom">>)

\* what a body can raise at a given stack
Raisable(stk) == {UserPanic} \cup {throw(T, v, stk) : T \in Types, v \in Vals}

\* Result<T, E>: Ok(val) or Err(err), the value with its type
Ok(box) == [tag |-> "Ok", box |-> box]
Err(box) == [tag |-> "Err", box |-> box]
Results ==
    {Ok([ty |-> "T", val |-> v]) : v \in Vals}
        \cup {Err([ty |-> E, val |-> v]) : E \in Types, v \in Vals}

\* a tri! that gives a default value for an Err
tri_or_default(expr, stk) ==
    IF expr.tag = "Ok"
    THEN [raise |-> NoPayload, val |-> expr.box.val]
    ELSE [raise |-> NoPayload, val |-> 0]

\* tri!(expr): the value of the expression, or the payload it unwinds with
tri(expr, stk) ==
    IF expr.tag = "Ok"
    THEN [raise |-> NoPayload, val |-> expr.box.val]
    ELSE [raise |-> throw(expr.box.ty, expr.box.val, stk), val |-> 0]

\* a downcast that gives nothing back when the type differs
downcast_consuming(box, T) ==
    IF box.ty = T THEN [ok |-> TRUE, value |-> box, err |-> NoBox]
    ELSE [ok |-> FALSE, value |-> NoBox, err |-> NoBox]

\* a downcast that rebuilds the value instead of moving it out of the box
downcast_rebuilt(box, T) ==
    IF box.ty = T THEN [ok |-> TRUE, value |-> [ty |-> T, val |-> 1], err |-> NoBox]
    ELSE [ok |-> FALSE, value |-> NoBox, err |-> box]

\* Box<dyn Any>::downcast::<T>() on the payload of a Thrown
downcast(box, T) ==
    IF box.ty = T THEN [ok |-> TRUE, value |-> box, err |-> NoBox]
    ELSE [ok |-> FALSE, value |-> NoBox, err |-> box]

\* panic_payload.downcast::<Thrown>()
downcast_Thrown(payload) == payload.kind = "Thrown"

\* --------------------------------------------------------------- frames
\* the clauses of a construct: typed is the sequence of declared types
Shape(typed, all, pan, fin) ==
    [typed |-> typed, all |-> all, panic |-> pan, finally |-> fin]

NoShape == Shape(<<>>, FALSE, FALSE, FALSE)

TryFrame(shape) ==
    [kind |-> "try", shape |-> shape, phase |-> "try", finallyRuns |-> 0]

\* Option<T>
None == [some |-> FALSE, val |-> 0]
Some(v) == [some |-> TRUE, val |-> v]
unwrap_unchecked(opt) == opt.val

\* let mut main = Some(main); let mut output = None; runs counts the calls
\* of main_fn
DriverSlots == [main |-> TRUE, output |-> None, runs |-> 0]

\* the closure given to inner, up to its call of main_fn: main.take()
closure_take(slots) == [slots EXCEPT !.main = FALSE, !.runs = @ + 1]

\* the closure given to inner, once main_fn returned v: output = Some(v)
closure_store(slots, v) == [slots EXCEPT !.output = Some(v)]

\* a driver that returns a default value in place of the body's
throw_driver_output_default(slots) == 0

\* what __throw_driver returns when inner returned: output.unwrap_unchecked()
throw_driver_output(slots) == unwrap_unchecked(slots.output)

\* Poll<T>
Pending == [ready |-> FALSE, val |-> 0]
Ready(v) == [ready |-> TRUE, val |-> v]

\* a guard that wraps the call that makes the future, and no poll of it
throw_guard_body_once(asyncness) == [wraps |-> "call"]

\* throw_guard_body: what the generated body gives to __throw_driver: each
\* Future::poll of the pinned async block, or the whole body of a sync fn
throw_guard_body(asyncness) ==
    IF asyncness THEN [wraps |-> "poll"] ELSE [wraps |-> "call"]

\* a closure that reports every step as pending
poll_fn_closure_pending(slots, outcome) == Pending

\* the closure given to poll_fn: what __throw_driver returns for a poll that
\* returned outcome, or the outcome itself where no driver wraps the poll
poll_fn_closure(slots, outcome) ==
    IF throw_guard_body(TRUE).wraps = "poll"
    THEN throw_driver_output(closure_store(slots, outcome))
    ELSE outcome

\* the future: polls counts the calls of the poll_fn closure, guards the
\* calls of __throw_driver, produced lists what Future::poll of the async
\* block returned and returned what the poll_fn closure returned
NoFut == [state |-> "none", polls |-> 0, guards |-> 0, produced |-> <<>>, returned |-> <<>>]
NewFut ==
    [state |-> "created", polls |-> 0,
     guards |-> IF throw_guard_body(TRUE).wraps = "call" THEN 1 ELSE 0,
     produced |-> <<>>, returned |-> <<>>]

\* the frame of one call of the poll_fn closure
PollFrame ==
    [kind |-> "driver", shape |-> NoShape, phase |-> "poll", finallyRuns |-> 0,
     slots |-> closure_take(DriverSlots)]

DriverFrame ==
    [kind |-> "driver", shape |-> NoShape, phase |-> "body", finallyRuns |-> 0,
     slots |-> closure_take(DriverSlots)]

\* the token trees __count_blocks! is called with, one per block
BlockList(shape) ==
    <<"try">> \o shape.typed
      \o (IF shape.all THEN <<"exception">> ELSE <<>>)
      \o (IF shape.panic THEN <<"panic">> ELSE <<>>)
      \o (IF shape.finally THEN <<"finally">> ELSE <<>>)

RECURSIVE count_blocks(_)
count_blocks(blocks) ==
    IF blocks = <<>> THEN 0 ELSE 1 + count_blocks(Tail(blocks))

\* the check with its limit one too low
const_check_off_by_one(shape) == count_blocks(BlockList(shape)) < 1

\* the const block of try_catch!: TRUE when compilation fails
const_check_fails(shape) == count_blocks(BlockList(shape)) < 2

RECURSIVE SeqsUpTo(_, _)
SeqsUpTo(S, n) ==
    IF n = 0 THEN {<<>>}
    ELSE LET shorter == SeqsUpTo(S, n - 1)
         IN  shorter \cup {Append(s, x) : s \in shorter, x \in S}

\* every construct the macro's grammar accepts, of at most n blocks
ShapesUpTo(n) ==
    {s \in {Shape(t, a, p, f) : t \in SeqsUpTo(Types, IF n > 1 THEN n - 1 ELSE 0),
                                a \in BOOLEAN, p \in BOOLEAN, f \in BOOLEAN} :
        1 + Len(s.typed) + (IF s.all THEN 1 ELSE 0) + (IF s.panic THEN 1 ELSE 0)
          + (IF s.finally THEN 1 ELSE 0) <= n}

RECURSIVE LiveBlocks(_)
LiveBlocks(stk) ==
    IF stk = <<>> THEN 0
    ELSE (IF Head(stk).kind = "try" THEN count_blocks(BlockList(Head(stk).shape)) ELSE 0)
         + LiveBlocks(Tail(stk))

Top == stack[Len(stack)]
Pop(stk) == SubSeq(stk, 1, Len(stk) - 1)
SetTop(stk, f) == [stk EXCEPT ![Len(stk)] = f]

Ctl(kind, payload, val) == [kind |-> kind, payload |-> payload, val |-> val]
Running == Ctl("run", NoPayload, 0)

\* which clause a dispatch selected
Handler(clause, index) == [clause |-> clause, index |-> index]
NoHandler == Handler("none", 0)

\* a construct as control left it: by which path, and how often its finally
\* body had run by then
Left(frame) ==
    [path |-> frame.phase, finally |-> frame.shape.finally,
     finallyRuns |-> frame.finallyRuns]
NoLeft == [path |-> "none", finally |-> FALSE, finallyRuns |-> 0]

Step(op, caught, handler, bound, val, left) ==
    [op |-> op, caught |-> caught, handler |-> handler, bound |-> bound,
     val |-> val, left |-> left]
Did(op) == Step(op, NoPayload, NoHandler, NoPayload, 0, NoLeft)

\* ------------------------------------------------------------- dispatch
\* a loop that keeps trying after a match, so that the last match wins
typed_catch_last_match(exception, typed, i) ==
    LET M == {j \in i..Len(typed) : typed[j] = exception.source.ty}
    IN  IF M = {}
        THEN [matched |-> FALSE, index |-> 0, bound |-> NoBox, exception |-> exception]
        ELSE [matched |-> TRUE, index |-> CHOOSE j \in M : \A k \in M : k <= j,
              bound |-> exception.source, exception |-> exception]

\* the typed catch clauses, expanded in declaration order: each one tries
\* exception.source.downcast::<$exception_ty>() and on Err puts the box back
RECURSIVE typed_catch_loop(_, _, _)
typed_catch_loop(exception, typed, i) ==
    IF i > Len(typed)
    THEN [matched |-> FALSE, index |-> 0, bound |-> NoBox, exception |-> exception]
    ELSE LET r == downcast(exception.source, typed[i])
         IN  IF r.ok
             THEN [matched |-> TRUE, index |-> i, bound |-> r.value,
                   exception |-> exception]
             ELSE typed_catch_loop([exception EXCEPT !.source = r.err], typed, i + 1)

\* the Err(panic_payload) arm of try_catch!: the clause whose body runs and
\* what its pattern is bound to, or the payload resume_unwind is called with
Caught(handler, bound) == [handler |-> handler, bound |-> bound, resume |-> NoPayload]
\* a re-raise that boxes the panic payload once more
Resume_reboxed(payload) ==
    [handler |-> NoHandler, bound |-> NoPayload,
     resume |-> IF payload.kind = "panic" THEN PanicPayload(<<"Box<dyn Any>">>)
                ELSE payload]

Resume(payload) == [handler |-> NoHandler, bound |-> NoPayload, resume |-> payload]

\* a dispatch that offers a Thrown to the catch exception clause first
dispatch_all_first(shape, panic_payload) ==
    IF ~downcast_Thrown(panic_payload)
    THEN IF shape.panic
         THEN Caught(Handler("panic", 0), panic_payload)
         ELSE Resume(panic_payload)
    ELSE IF shape.all
         THEN Caught(Handler("exception", 0), panic_payload.source)
         ELSE LET r == typed_catch_loop(panic_payload, shape.typed, 1)
              IN  IF r.matched
                  THEN Caught(Handler("typed", r.index), r.bound)
                  ELSE Resume(r.exception)

\* a dispatch whose catch panic clause also takes a Thrown nothing matched
dispatch_panic_takes_rest(shape, panic_payload) ==
    IF ~downcast_Thrown(panic_payload)
    THEN IF shape.panic
         THEN Caught(Handler("panic", 0), panic_payload)
         ELSE Resume(panic_payload)
    ELSE LET r == typed_catch_loop(panic_payload, shape.typed, 1)
         IN  IF r.matched
             THEN Caught(Handler("typed", r.index), r.bound)
             ELSE IF shape.all
                  THEN Caught(Handler("exception", 0), r.exception.source)
                  ELSE IF shape.panic
                       THEN Caught(Handler("panic", 0), r.exception)
                       ELSE Resume(r.exception)

\* a dispatch whose catch exception clause also takes a panic that is no Thrown
dispatch_all_takes_panic(shape, panic_payload) ==
    IF ~downcast_Thrown(panic_payload)
    THEN IF shape.panic
         THEN Caught(Handler("panic", 0), panic_payload)
         ELSE IF shape.all
              THEN Caught(Handler("exception", 0), panic_payload)
              ELSE Resume(panic_payload)
    ELSE LET r == typed_catch_loop(panic_payload, shape.typed, 1)
         IN  IF r.matched
             THEN Caught(Handler("typed", r.index), r.bound)
             ELSE IF shape.all
                  THEN Caught(Handler("exception", 0), r.exception.source)
                  ELSE Resume(r.exception)

\* a dispatch that panics afresh when nothing matched a Thrown
dispatch_panics_on_unmatched(shape, panic_payload) ==
    IF ~downcast_Thrown(panic_payload)
    THEN IF shape.panic
         THEN Caught(Handler("panic", 0), panic_payload)
         ELSE Resume(panic_payload)
    ELSE LET r == typed_catch_loop(panic_payload, shape.typed, 1)
         IN  IF r.matched
             THEN Caught(Handler("typed", r.index), r.bound)
             ELSE IF shape.all
                  THEN Caught(Handler("exception", 0), r.exception.source)
                  ELSE Resume(PanicPayload(<<"unmatched exception">>))

dispatch(shape, panic_payload) ==
    IF ~downcast_Thrown(panic_payload)
    THEN IF shape.panic
         THEN Caught(Handler("panic", 0), panic_payload)
         ELSE Resume(panic_payload)
    ELSE LET r == typed_catch_loop(panic_payload, shape.typed, 1)
         IN  IF r.matched
             THEN Caught(Handler("typed", r.index), r.bound)
             ELSE IF shape.all
                  THEN Caught(Handler("exception", 0), r.exception.source)
                  ELSE Resume(r.exception)

\* a finally body called after the match instead of from a guard: it is
\* skipped when resume_unwind leaves the construct
FinallyDo_skipped_on_resume(frame) ==
    IF frame.shape.finally /\ frame.phase # "reraise"
    THEN [frame EXCEPT !.finallyRuns = @ + 1, !.phase = "left"]
    ELSE [frame EXCEPT !.phase = "left"]

\* a finally body called only after the try body completed
FinallyDo_only_after_try(frame) ==
    IF frame.shape.finally /\ frame.phase = "done_try"
    THEN [frame EXCEPT !.finallyRuns = @ + 1, !.phase = "left"]
    ELSE [frame EXCEPT !.phase = "left"]

\* FinallyDo::drop: the guard, when the construct has one, runs the finally
\* body as the construct's scope is left
FinallyDo_drop(frame) ==
    IF frame.shape.finally
    THEN [frame EXCEPT !.finallyRuns = @ + 1, !.phase = "left"]
    ELSE [frame EXCEPT !.phase = "left"]

\* a driver whose message leaves the backtrace out
inner_no_backtrace(panic) ==
    IF downcast_Thrown(panic)
    THEN PanicPayload(<<"unhandled exception", panic.type_name>>)
    ELSE panic

\* a driver that reports every panic as an unhandled exception
inner_wraps_all(panic) ==
    IF downcast_Thrown(panic)
    THEN PanicPayload(<<"unhandled exception", panic.type_name, panic.backtrace>>)
    ELSE PanicPayload(<<"unhandled exception", "panic", 0>>)

\* a driver that lets every payload through
inner_passthrough(panic) == panic

\* __throw_driver::inner, the Err(panic) arm: the payload it unwinds with
inner(panic) ==
    IF downcast_Thrown(panic)
    THEN PanicPayload(<<"unhandled exception", panic.type_name, panic.backtrace>>)
    ELSE panic

Init ==
    /\ stack = <<>>
    /\ ctl = Running
    /\ last = Did("start")
    /\ raised = NoPayload
    /\ crossed = FALSE
    /\ rejected = <<>>
    /\ fut = NoFut

\* ------------------------------------------------------------ user code
\* user code runs on the thread, or in a poll of the future when there is one
CanRun == ctl.kind = "run" /\ fut.state \in {"none", "polling"}
TopIs(kind, phases) ==
    /\ stack # <<>>
    /\ Top.kind = kind
    /\ Top.phase \in phases

\* a try_catch! { ... } is reached: its const block is evaluated first
TryCatchEnter(shape) ==
    /\ CanRun
    /\ Len(stack) < MaxDepth
    /\ LiveBlocks(stack) + count_blocks(BlockList(shape)) <= MaxBlocks
    /\ IF const_check_fails(shape)
       THEN /\ ctl' = Ctl("compile_error", NoPayload, 0)
            /\ stack' = stack
            /\ rejected' = Append(rejected, shape)
            /\ last' = Did("reject")
       ELSE /\ ctl' = Running
            /\ stack' = Append(stack, TryFrame(shape))
            /\ last' = Did("enter")
            /\ UNCHANGED rejected
    /\ UNCHANGED <<raised, crossed>>
    /\ UNCHANGED fut

\* a throw_guard-wrapped function or closure is called
DriverEnter ==
    /\ CanRun
    /\ Len(stack) < MaxDepth
    /\ stack' = Append(stack, DriverFrame)
    /\ ctl' = Running
    /\ last' = Did("call")
    /\ UNCHANGED <<raised, crossed, rejected>>
    /\ UNCHANGED fut

\* the running body calls throw(x) with x: T
Throw(T, v) ==
    /\ CanRun
    /\ ctl' = Ctl("unwind", throw(T, v, stack), 0)
    /\ raised' = throw(T, v, stack)
    /\ crossed' = FALSE
    /\ last' = Did("throw")
    /\ UNCHANGED <<stack, rejected>>
    /\ UNCHANGED fut

\* the running body evaluates tri!(expr)
Tri(expr) ==
    /\ CanRun
    /\ LET out == tri(expr, stack)
       IN  /\ last' = Step("tri", NoPayload, NoHandler, expr, out.val, NoLeft)
           /\ IF out.raise = NoPayload
              THEN /\ ctl' = Running
                   /\ UNCHANGED <<raised, crossed>>
              ELSE /\ ctl' = Ctl("unwind", out.raise, 0)
                   /\ raised' = out.raise
                   /\ crossed' = FALSE
    /\ UNCHANGED <<stack, rejected>>
    /\ UNCHANGED fut

\* the running body panics
Panic ==
    /\ CanRun
    /\ ctl' = Ctl("unwind", UserPanic, 0)
    /\ raised' = UserPanic
    /\ crossed' = FALSE
    /\ last' = Did("panic")
    /\ UNCHANGED <<stack, rejected>>
    /\ UNCHANGED fut

\* ----------------------------------------------------------- try_catch!
\* the try body completes: catch_unwind returns Ok(res), val = res
TryBodyOk(v) ==
    /\ CanRun
    /\ TopIs("try", {"try"})
    /\ stack' = SetTop(stack, [Top EXCEPT !.phase = "done_try"])
    /\ ctl' = Ctl("ret", NoPayload, v)
    /\ last' = Step("try_ok", NoPayload, NoHandler, NoPayload, v, NoLeft)
    /\ UNCHANGED <<raised, crossed, rejected>>
    /\ UNCHANGED fut

\* an expansion whose clause bodies run under catch_unwind too
under_catch_unwind_with_clauses(frame) == frame.phase \in {"try", "clause"}

\* catch_unwind(fun): only the try body runs under it
under_catch_unwind(frame) == frame.phase = "try"

\* catch_unwind returns Err(panic_payload): classify, match, or re-raise
TryIntercept ==
    /\ ctl.kind = "unwind"
    /\ stack # <<>>
    /\ Top.kind = "try"
    /\ under_catch_unwind(Top)
    /\ LET d == dispatch(Top.shape, ctl.payload)
       IN  /\ last' = Step("catch", ctl.payload, d.handler, d.bound, 0, NoLeft)
           /\ IF d.handler.clause # "none"
              THEN \* the unwind ends here: the clause body runs
                   /\ stack' = SetTop(stack, [Top EXCEPT !.phase = "clause"])
                   /\ ctl' = Running
                   /\ raised' = NoPayload
              ELSE \* resume_unwind
                   /\ stack' = SetTop(stack, [Top EXCEPT !.phase = "reraise"])
                   /\ ctl' = Ctl("unwind", d.resume, 0)
                   /\ UNCHANGED raised
    /\ UNCHANGED <<crossed, rejected>>
    /\ UNCHANGED fut

\* the body of the selected clause completes: break 'ret_from_err (value)
ClauseBodyOk(v) ==
    /\ CanRun
    /\ TopIs("try", {"clause"})
    /\ stack' = SetTop(stack, [Top EXCEPT !.phase = "done_clause"])
    /\ ctl' = Ctl("ret", NoPayload, v)
    /\ last' = Step("clause_ok", NoPayload, NoHandler, NoPayload, v, NoLeft)
    /\ UNCHANGED <<raised, crossed, rejected>>
    /\ UNCHANGED fut

\* what a finally body does: completes, or raises
FinallyOutcomes(frame, stk) ==
    IF frame.shape.finally THEN {NoPayload} \cup Raisable(stk) ELSE {NoPayload}

\* a guard whose body, raising during an unwind, replaces the payload
guard_raise_supersedes(c, fin) == Ctl("unwind", fin, 0)

\* the finally body raises out of FinallyDo::drop: at the end of the scope
\* that is a new unwind, in a destructor run by an unwind (resume_unwind, or
\* an unwind out of a clause body) the process aborts
guard_raise(c, fin) ==
    IF c.kind = "ret" THEN Ctl("unwind", fin, 0) ELSE Ctl("abort", NoPayload, 0)

\* control leaves the construct: by the value val, by resume_unwind, or by
\* an unwind out of a clause body; _finally_guard is dropped on the way
TryLeave(fin) ==
    /\ stack # <<>>
    /\ Top.kind = "try"
    /\ \/ Top.phase \in {"done_try", "done_clause", "reraise"}
       \/ Top.phase = "clause" /\ ctl.kind = "unwind"
    /\ fin \in FinallyOutcomes(Top, stack)
    /\ LET left == FinallyDo_drop(Top)
           ran == left.finallyRuns > Top.finallyRuns
           faulted == ran /\ fin # NoPayload
           out == IF faulted THEN guard_raise(ctl, fin)
                  ELSE IF ctl.kind = "ret" THEN Running ELSE ctl
       IN  /\ last' = Step("leave", ctl.payload, NoHandler,
                           IF faulted THEN fin ELSE NoPayload, ctl.val,
                           Left([left EXCEPT !.phase = Top.phase]))
           /\ ctl' = out
           /\ stack' = IF out.kind = "abort" THEN SetTop(stack, left) ELSE Pop(stack)
           /\ raised' = IF faulted /\ out.kind = "unwind" THEN fin ELSE raised
           /\ crossed' = IF faulted /\ out.kind = "unwind" THEN FALSE ELSE crossed
           /\ UNCHANGED rejected
    /\ UNCHANGED fut

\* ------------------------------------------------------- __throw_driver
\* main_fn() completes: inner returns, output.unwrap_unchecked()
DriverReturn(v) ==
    /\ CanRun
    /\ TopIs("driver", {"body"})
    /\ stack' = Pop(stack)
    /\ ctl' = Running
    /\ last' = Step("driver_ok", NoPayload, NoHandler, closure_store(Top.slots, v),
                     throw_driver_output(closure_store(Top.slots, v)), NoLeft)
    /\ UNCHANGED <<raised, crossed, rejected>>
    /\ UNCHANGED fut

\* catch_unwind in inner returns Err(panic)
DriverIntercept ==
    /\ ctl.kind = "unwind"
    /\ TopIs("driver", {"body"})
    /\ stack' = Pop(stack)
    /\ ctl' = Ctl("unwind", inner(ctl.payload), 0)
    /\ raised' = IF inner(ctl.payload) = ctl.payload THEN raised ELSE inner(ctl.payload)
    /\ crossed' = TRUE
    /\ UNCHANGED rejected
    /\ last' = Step("driver_err", ctl.payload, NoHandler, NoPayload, 0, NoLeft)
    /\ UNCHANGED fut

\* --------------------------------------------------------------- thread
\* the thread's entry function returns
ThreadReturn(v) ==
    /\ CanRun
    /\ stack = <<>>
    /\ ctl' = Ctl("done", NoPayload, v)
    /\ last' = Step("exit", NoPayload, NoHandler, NoPayload, v, NoLeft)
    /\ UNCHANGED <<stack, raised, crossed, rejected>>
    /\ UNCHANGED fut

\* an unwind leaves the thread's entry function
ThreadPanic ==
    /\ ctl.kind = "unwind"
    /\ stack = <<>>
    /\ ctl' = Ctl("dead", ctl.payload, 0)
    /\ last' = Step("die", ctl.payload, NoHandler, NoPayload, 0, NoLeft)
    /\ UNCHANGED <<stack, raised, crossed, rejected>>
    /\ UNCHANGED fut

\* ---------------------------------------------------------- async fn
\* the async throw_guard function was called: its future exists, unpolled
InitAsync ==
    /\ stack = <<>>
    /\ ctl = Running
    /\ last = Did("start")
    /\ raised = NoPayload
    /\ crossed = FALSE
    /\ rejected = <<>>
    /\ fut = NewFut

\* the executor polls the future: the poll_fn closure is called
PollBegin ==
    /\ ctl.kind = "run"
    /\ stack = <<>>
    /\ fut.state \in {"created", "suspended"}
    /\ fut.polls < MaxPolls
    /\ stack' = <<PollFrame>>
    /\ fut' = [fut EXCEPT !.state = "polling", !.polls = @ + 1,
                          !.guards = IF throw_guard_body(TRUE).wraps = "poll"
                                     THEN @ + 1 ELSE @]
    /\ last' = Did("poll")
    /\ UNCHANGED <<ctl, raised, crossed, rejected>>

\* Future::poll of the async block returns outcome, at an await of the body
\* or at its end
PollReturn(outcome) ==
    /\ CanRun
    /\ TopIs("driver", {"poll"})
    /\ stack' = Pop(stack)
    /\ fut' = [fut EXCEPT !.state = IF poll_fn_closure(Top.slots, outcome).ready
                                    THEN "ready" ELSE "suspended",
                          !.produced = Append(@, outcome),
                          !.returned = Append(@, poll_fn_closure(Top.slots, outcome))]
    /\ last' = Step("poll_ok", NoPayload, NoHandler, NoPayload, outcome.val, NoLeft)
    /\ UNCHANGED <<ctl, raised, crossed, rejected>>

\* an unwind reaches the poll_fn closure: catch_unwind in inner returns
\* Err(panic) where __throw_driver wraps the poll
PollIntercept ==
    /\ ctl.kind = "unwind"
    /\ TopIs("driver", {"poll"})
    /\ LET out == IF throw_guard_body(TRUE).wraps = "poll"
                  THEN inner(ctl.payload) ELSE ctl.payload
       IN  /\ ctl' = Ctl("unwind", out, 0)
           /\ raised' = IF out = ctl.payload THEN raised ELSE out
    /\ stack' = Pop(stack)
    /\ crossed' = TRUE
    /\ fut' = [fut EXCEPT !.state = "panicked"]
    /\ last' = Step("poll_err", ctl.payload, NoHandler, NoPayload, 0, NoLeft)
    /\ UNCHANGED rejected

\* the steps of a poll and of the body in it; tri! in the body is the throw
\* or the value that Throw and the return steps already are
NextAsync ==
    \/ PollBegin
    \/ \E outcome \in {Pending} \cup {Ready(v) : v \in Vals} : PollReturn(outcome)
    \/ PollIntercept
    \/ \E shape \in ShapesUpTo(MaxBlocks - LiveBlocks(stack)) : TryCatchEnter(shape)
    \/ DriverEnter
    \/ \E T \in Types, v \in Vals : Throw(T, v)
    \/ Panic
    \/ \E v \in Vals : TryBodyOk(v)
    \/ TryIntercept
    \/ \E v \in Vals : ClauseBodyOk(v)
    \/ \E fin \in {NoPayload} \cup Raisable(stack) : TryLeave(fin)
    \/ \E v \in Vals : DriverReturn(v)
    \/ DriverIntercept
    \/ ThreadPanic

SpecAsync == InitAsync /\ [][NextAsync]_vars

Next ==
    \/ \E shape \in ShapesUpTo(MaxBlocks - LiveBlocks(stack)) : TryCatchEnter(shape)
    \/ DriverEnter
    \/ \E T \in Types, v \in Vals : Throw(T, v)
    \/ \E expr \in Results : Tri(expr)
    \/ Panic
    \/ \E v \in Vals : TryBodyOk(v)
    \/ TryIntercept
    \/ \E v \in Vals : ClauseBodyOk(v)
    \/ \E fin \in {NoPayload} \cup Raisable(stack) : TryLeave(fin)
    \/ \E v \in Vals : DriverReturn(v)
    \/ DriverIntercept
    \/ \E v \in Vals : ThreadReturn(v)
    \/ ThreadPanic

Spec == Init /\ [][Next]_vars

\* an unwind goes on until something intercepts it: catch_unwind in a
\* construct or in a driver, the guards of the constructs in between (whose
\* finally bodies are taken to end), and the thread's entry
FairSpec ==
    /\ Spec
    /\ WF_vars(TryIntercept)
    /\ WF_vars(\E fin \in {NoPayload} \cup Raisable(stack) : TryLeave(fin))
    /\ WF_vars(DriverIntercept)
    /\ WF_vars(ThreadPanic)

\* ================================================================ claims
IsThrown(p) == p.kind = "Thrown"
IsEscalated(p) ==
    /\ p.kind = "panic"
    /\ Len(p.msg) = 3
    /\ p.msg[1] = "unhandled exception"

\* the number of blocks of a construct, counted from its clauses
Blocks(shape) ==
    1 + Len(shape.typed) + (IF shape.all THEN 1 ELSE 0)
      + (IF shape.panic THEN 1 ELSE 0) + (IF shape.finally THEN 1 ELSE 0)

\* the clauses of typed that are declared for T
Declared(typed, T) == {i \in 1..Len(typed) : typed[i] = T}

\* a dispatch has just been made by the construct on top of the stack
JustCaught == last.op = "catch"
JustCaughtThrown == JustCaught /\ IsThrown(last.caught)

\* C1: a construct with a finally block runs the finally body exactly once
\* on each way out (try body completed, clause body completed, re-raise),
\* never before the way out is fixed and never after control has left; a
\* construct without one runs none.
C1_FinallyExactlyOnce ==
    /\ \A i \in 1..Len(stack) :
          stack[i].phase # "left" => stack[i].finallyRuns = 0
    /\ last.op = "leave" =>
          /\ last.left.path \in {"done_try", "done_clause", "reraise", "clause"}
          /\ last.left.finallyRuns = (IF last.left.finally THEN 1 ELSE 0)

\* C1 witness: a construct with a finally block was left by a re-raise, the
\* unwind goes on, and the finally body has run once.
C1_Witness ==
    /\ last.op = "leave"
    /\ last.left.finally
    /\ last.left.path = "reraise"
    /\ last.left.finallyRuns = 1
    /\ ctl.kind = "unwind"

\* C2: for a thrown value of type T the clause that runs is the first typed
\* clause declared for T: no later clause for T and no clause for another
\* type runs, and when a clause for T exists a typed clause does run.
C2_FirstMatchingClause ==
    JustCaughtThrown =>
        LET T == last.caught.source.ty
            D == Declared(Top.shape.typed, T)
        IN  /\ D # {} =>
                  /\ last.handler.clause = "typed"
                  /\ last.handler.index \in D
                  /\ \A j \in D : last.handler.index <= j
            /\ D = {} => last.handler.clause # "typed"

\* C2 witness: two clauses declare the thrown type and the first one runs.
C2_Witness ==
    /\ JustCaughtThrown
    /\ Cardinality(Declared(Top.shape.typed, last.caught.source.ty)) >= 2
    /\ last.handler = Handler("typed", 1)
    /\ Top.phase = "clause"

\* C3: in a construct with a catch exception clause that intercepted a
\* Thrown, the catch exception body runs, bound to the payload, exactly when
\* no typed clause is declared for the payload's type.
C3_CatchAllIffNoTypedMatch ==
    (JustCaughtThrown /\ Top.shape.all) =>
        LET T == last.caught.source.ty
        IN  /\ last.handler.clause = "exception"
                  <=> Declared(Top.shape.typed, T) = {}
            /\ last.handler.clause = "exception" => last.bound = last.caught.source
            /\ last.handler.clause # "none"

\* C3 witness: clauses (B), (A), catch exception, and an A is thrown: the
\* (A) clause runs.
C3_Witness ==
    /\ JustCaughtThrown
    /\ Top.shape.all
    /\ Top.shape.typed = <<"B", "A">>
    /\ last.caught.source.ty = "A"
    /\ last.handler = Handler("typed", 2)

\* C4: the catch panic body runs exactly when the construct has a catch
\* panic clause and the intercepted payload is not a Thrown; it is then
\* bound to that payload.
C4_CatchPanicIffOpaque ==
    JustCaught =>
        /\ last.handler.clause = "panic"
              <=> (Top.shape.panic /\ ~IsThrown(last.caught))
        /\ last.handler.clause = "panic" => last.bound = last.caught

\* C4 witness: a construct with a catch panic clause and no matching clause
\* intercepts a Thrown and re-raises it.
C4_Witness ==
    /\ JustCaughtThrown
    /\ Top.shape.panic
    /\ last.handler = NoHandler
    /\ Top.phase = "reraise"

\* C5: a Thrown that no typed clause matches, in a construct without a catch
\* exception clause, is re-raised as it was intercepted, and a Thrown in
\* flight is always the one throw made: payload, type_name and backtrace.
C5_ReraiseUnchanged ==
    /\ (JustCaughtThrown /\ ~Top.shape.all
          /\ Declared(Top.shape.typed, last.caught.source.ty) = {}) =>
            /\ Top.phase = "reraise"
            /\ ctl.kind = "unwind"
            /\ ctl.payload = last.caught
    /\ (ctl.kind = "unwind" /\ IsThrown(ctl.payload)) =>
            /\ ctl.payload = raised
            /\ ctl.payload.type_name = type_name(ctl.payload.source.ty)

\* C5 witness: two typed clauses failed to match and the Thrown is re-raised.
C5_Witness ==
    /\ JustCaughtThrown
    /\ Len(Top.shape.typed) >= 2
    /\ Top.phase = "reraise"
    /\ ctl.payload = raised

\* C6: a driver that intercepts a Thrown unwinds with a new panic whose
\* message holds the type_name and the backtrace the Thrown was made with.
C6_DriverEscalates ==
    (last.op = "driver_err" /\ IsThrown(last.caught)) =>
        /\ ctl.kind = "unwind"
        /\ ctl.payload =
              PanicPayload(<<"unhandled exception",
                             type_name(last.caught.source.ty),
                             last.caught.backtrace>>)
        /\ last.caught.backtrace > Len(stack)

\* C6 witness: a Thrown of type B reached a driver and was escalated.
C6_Witness ==
    /\ last.op = "driver_err"
    /\ IsThrown(last.caught)
    /\ last.caught.source.ty = "B"
    /\ IsEscalated(ctl.payload)

\* C7: a driver that intercepts a panic that is not a Thrown unwinds with
\* that same payload.
C7_DriverPassesPanic ==
    (last.op = "driver_err" /\ ~IsThrown(last.caught)) =>
        /\ ctl.kind = "unwind"
        /\ ctl.payload = last.caught
        /\ ctl.payload = raised

\* C7 witness: a panic of user code went through a driver.
C7_Witness ==
    /\ last.op = "driver_err"
    /\ last.caught = UserPanic
    /\ ctl.payload = UserPanic

\* C8 as stated: no clause of an enclosing construct ever receives control
\* for the panic a driver raised for an unhandled Thrown.
C8_NeverRecovered ==
    (JustCaught /\ IsEscalated(last.caught)) => last.handler.clause = "none"

\* C8 amended: the typed and catch exception clauses never receive the
\* escalated panic; a catch panic clause, when the construct has one, does,
\* bound to that panic, and the construct otherwise re-raises it unchanged.
C8_OnlyCatchPanicRecovers ==
    (JustCaught /\ IsEscalated(last.caught)) =>
        IF Top.shape.panic
        THEN /\ last.handler.clause = "panic"
             /\ last.bound = last.caught
             /\ ctl.kind = "run"
        ELSE /\ last.handler.clause = "none"
             /\ ctl.kind = "unwind"
             /\ ctl.payload = last.caught

\* C8 witness: a construct with a catch exception clause and no catch panic
\* clause intercepts the escalated panic and re-raises it.
C8_Witness ==
    /\ JustCaught
    /\ IsEscalated(last.caught)
    /\ Top.shape.all
    /\ ~Top.shape.panic
    /\ Top.phase = "reraise"

\* C9: an unwind that has left a throw_guard-wrapped function is never a
\* Thrown: not in flight, not as a driver leaves it, not as a construct
\* intercepts it.
C9_NoThrownPastDriver ==
    /\ (ctl.kind = "unwind" /\ crossed) => ~IsThrown(ctl.payload)
    /\ last.op = "driver_err" => (ctl.kind = "unwind" /\ ~IsThrown(ctl.payload))
    /\ (JustCaught /\ crossed) =>
          (~IsThrown(last.caught) /\ last.handler.clause \notin {"typed", "exception"})

\* C9 witness: a value was thrown inside a wrapped function that did not
\* catch it, and the construct around the call, with a typed clause for
\* each type and a catch exception clause, ran none of them.
C9_Witness ==
    /\ JustCaught
    /\ crossed
    /\ IsEscalated(last.caught)
    /\ Top.shape.all
    /\ Len(Top.shape.typed) >= 1
    /\ last.handler = NoHandler

\* C10: a construct of fewer than two blocks is rejected and never runs; a
\* rejected construct has fewer than two blocks, so one of two is accepted.
C10_BlockCount ==
    /\ \A i \in 1..Len(stack) : stack[i].kind = "try" => Blocks(stack[i].shape) >= 2
    /\ ctl.kind = "compile_error" <=> last.op = "reject"
    /\ ctl.kind = "compile_error" =>
          (Len(rejected) = 1 /\ Blocks(rejected[1]) < 2)
    /\ ctl.kind # "compile_error" => rejected = <<>>

\* C10 witness: a construct of a try block and a finally block alone has run
\* its try body to completion.
C10_Witness ==
    /\ stack # <<>>
    /\ Top.kind = "try"
    /\ Top.shape = Shape(<<>>, FALSE, FALSE, TRUE)
    /\ Top.phase = "done_try"

\* C11: a value thrown and relayed, through constructs and typed clauses
\* that do not match, to a typed clause declared for its type is bound in
\* that clause to the value that was thrown.
C11_RoundTrip ==
    [][(ctl.kind = "unwind" /\ IsThrown(raised)
          /\ last'.op = "catch" /\ last'.handler.clause = "typed")
        => /\ last'.bound = raised.source
           /\ \E T \in Types, v \in Vals :
                 /\ raised = Thrown([ty |-> T, val |-> v], type_name(T),
                                    raised.backtrace)
                 /\ last'.bound = [ty |-> T, val |-> v]]_vars

\* C11 witness: a value thrown in an inner frame has passed a typed clause
\* for another type and is bound in the second clause.
C11_Witness ==
    /\ JustCaughtThrown
    /\ last.handler = Handler("typed", 2)
    /\ last.caught.backtrace > Len(stack)
    /\ last.bound = [ty |-> "B", val |-> 2]

\* the call stack has a driver at its entry point
Guarded == stack # <<>> /\ stack[1].kind = "driver"

\* a Thrown changes hands once: a typed or catch exception clause takes it
\* and no unwind is left, or a driver replaces it by its panic
ConsumedOnce ==
    /\ (JustCaughtThrown /\ last.handler.clause # "none") =>
          /\ last.handler.clause \in {"typed", "exception"}
          /\ ctl.kind = "run"
          /\ raised = NoPayload
    /\ (last.op = "driver_err" /\ IsThrown(last.caught)) =>
          /\ ~IsThrown(ctl.payload)
          /\ ~IsThrown(raised)
    /\ (ctl.kind = "unwind" /\ IsThrown(ctl.payload)) => ctl.payload = raised

\* C12 as stated: below a driver, a Thrown that no clause has taken and no
\* driver has escalated is still unwinding, and it ends up taken by one
\* clause or escalated by one driver.
C12_NeverDropped ==
    /\ ConsumedOnce
    /\ (Guarded /\ IsThrown(raised)) => (ctl.kind = "unwind" /\ ctl.payload = raised)

\* C12 amended: the same, but for the abort: a finally body that raises
\* while the Thrown unwinds through its construct aborts the process with
\* the Thrown neither taken nor escalated.  Finally bodies are taken to end.
C12_ConsumedOnceOrAborted ==
    /\ [](/\ ConsumedOnce
          /\ (Guarded /\ IsThrown(raised)) =>
                \/ ctl.kind = "unwind" /\ ctl.payload = raised
                \/ /\ ctl.kind = "abort"
                   /\ last.op = "leave"
                   /\ last.left.finally
                   /\ last.bound # NoPayload
                   /\ last.caught = raised)
    /\ (Guarded /\ IsThrown(raised)) ~> (~IsThrown(raised) \/ ctl.kind = "abort")

\* C12 witness: a Thrown raised at the deepest frame above the entry driver
\* has reached that driver and has been escalated by it.
C12_Witness ==
    /\ last.op = "driver_err"
    /\ IsThrown(last.caught)
    /\ last.caught.backtrace = MaxDepth
    /\ stack = <<>>
    /\ IsEscalated(raised)

\* C13: tri! on Ok(v) has the value v and raises nothing; on Err(e) it
\* unwinds with what throw(e) makes, and a construct around it that has a
\* typed clause for the type of e binds e in that clause.
C13_Tri ==
    /\ [](last.op = "tri" =>
            IF last.bound.tag = "Ok"
            THEN /\ ctl.kind = "run"
                 /\ last.val = last.bound.box.val
            ELSE /\ ctl.kind = "unwind"
                 /\ ctl.payload = Thrown(last.bound.box,
                                         type_name(last.bound.box.ty), Len(stack))
                 /\ raised = ctl.payload)
    /\ [][(/\ last.op = "tri"
           /\ ctl.kind = "unwind"
           /\ TopIs("try", {"try"})
           /\ Declared(Top.shape.typed, last.bound.box.ty) # {})
          => /\ last'.op = "catch"
             /\ last'.handler.clause = "typed"
             /\ last'.bound = last.bound.box]_vars

\* C13 witness: tri! of an Err has thrown inside a construct with a typed
\* clause for the error's type.
C13_Witness ==
    /\ last.op = "tri"
    /\ last.bound = Err([ty |-> "A", val |-> 2])
    /\ ctl.kind = "unwind"
    /\ TopIs("try", {"try"})
    /\ Declared(Top.shape.typed, "A") # {}

\* a finally body has just raised out of its guard
FinallyRaised == last.op = "leave" /\ last.bound # NoPayload

\* C16 as stated: a finally body that raises while its construct re-raises
\* replaces the payload: the unwind goes on with what the finally body raised.
C16_FinallySupersedes ==
    (FinallyRaised /\ last.left.path = "reraise") =>
        (ctl.kind = "unwind" /\ ctl.payload = last.bound)

\* C16 amended: a finally body that raises as its construct ends with a
\* value unwinds with what it raised, in place of the value; one that raises
\* while an unwind leaves the construct aborts the process, and neither
\* payload unwinds any further.
C16_FinallyRaiseAbortsUnwind ==
    FinallyRaised =>
        IF last.left.path \in {"done_try", "done_clause"}
        THEN /\ ctl.kind = "unwind"
             /\ ctl.payload = last.bound
             /\ raised = last.bound
        ELSE /\ last.left.path \in {"reraise", "clause"}
             /\ last.caught # NoPayload
             /\ ctl.kind = "abort"

\* C16 witness: a construct was re-raising a Thrown when its finally body
\* panicked, and the process has aborted.
C16_Witness ==
    /\ FinallyRaised
    /\ last.left.path = "reraise"
    /\ IsThrown(last.caught)
    /\ last.bound = UserPanic
    /\ ctl.kind = "abort"

\* C17: a panic that is not a Thrown is never given to a typed or catch
\* exception clause; a construct without a catch panic clause runs no clause
\* for it and re-raises it as it was.
C17_OpaqueNeverMatched ==
    (JustCaught /\ ~IsThrown(last.caught)) =>
        /\ last.handler.clause \notin {"typed", "exception"}
        /\ ~Top.shape.panic =>
              /\ last.handler = NoHandler
              /\ Top.phase = "reraise"
              /\ ctl.kind = "unwind"
              /\ ctl.payload = last.caught
              /\ ctl.payload = raised

\* C17 witness: a construct with typed clauses and a catch exception clause
\* but no catch panic clause has re-raised a panic of user code.
C17_Witness ==
    /\ JustCaught
    /\ last.caught = UserPanic
    /\ Top.shape.all
    /\ Len(Top.shape.typed) >= 2
    /\ Top.phase = "reraise"
    /\ ctl.payload = UserPanic

C20_NestedFinallyOrder ==
    /\ [](\A i \in 1..Len(stack) :
            stack[i].phase \in {"try", "clause", "done_try", "done_clause", "reraise"}
                => stack[i].finallyRuns = 0)
    /\ [][(stack # <<>> /\ Top.kind = "try" /\ Len(stack') < Len(stack))
          => /\ last'.op = "leave"
             /\ last'.left.finallyRuns = (IF Top.shape.finally THEN 1 ELSE 0)]_vars
    /\ [][last'.op = "catch"
          => /\ TopIs("try", {"try"})
             /\ Len(stack') = Len(stack)
             /\ ctl.payload.kind = "Thrown" => ctl.payload.backtrace >= Len(stack)]_vars
    /\ [][(TopIs("try", {"done_clause"}) /\ Top.shape.finally)
          => (last'.op = "leave" /\ last'.left.finallyRuns = 1)]_vars

\* C20 witness: an inner construct has re-raised a Thrown and run its
\* finally body; the outer construct, which has a finally block, is about to
\* run a clause for it.
C20_Witness ==
    /\ last.op = "leave"
    /\ last.left.path = "reraise"
    /\ last.left.finallyRuns = 1
    /\ ctl.kind = "unwind"
    /\ IsThrown(ctl.payload)
    /\ TopIs("try", {"try"})
    /\ Top.shape.finally
    /\ dispatch(Top.shape, ctl.payload).handler.clause # "none"

\* C18: every driver whose body is running has called it once; when the body
\* ends with a value the driver has still called it once, returns the value
\* the body left in output, and no payload unwinds out of it.
C18_DriverReturnsBodyValue ==
    /\ \A i \in 1..Len(stack) :
          stack[i].kind = "driver" =>
              stack[i].slots = [main |-> FALSE, output |-> None, runs |-> 1]
    /\ last.op = "driver_ok" =>
          /\ last.bound = [main |-> FALSE, output |-> Some(last.val), runs |-> 1]
          /\ last.val \in Vals
          /\ ctl = Running

\* C18 witness: a driver nested in another has returned the largest value.
C18_Witness ==
    /\ last.op = "driver_ok"
    /\ last.val = MaxVal
    /\ last.bound.output = Some(MaxVal)
    /\ TopIs("driver", {"body"})

\* C14: a Thrown that reaches the driver of a poll leaves it within that
\* step as the driver's panic, and the future has panicked; no Thrown is in
\* flight outside a poll, nothing is in flight while the future is suspended
\* or as a poll begins, and a future that panicked is not polled again, so
\* no later poll sees a Thrown of an earlier one.
C14_NoThrownAcrossPoll ==
    /\ [](/\ (last.op = "poll_err" /\ IsThrown(last.caught)) =>
                /\ ctl.kind = "unwind"
                /\ IsEscalated(ctl.payload)
                /\ ctl.payload = inner(last.caught)
                /\ raised = ctl.payload
                /\ fut.state = "panicked"
                /\ stack = <<>>
          /\ stack = <<>> => ~IsThrown(ctl.payload)
          /\ fut.state \in {"created", "suspended", "ready"} => ctl = Running)
    /\ [][fut'.polls # fut.polls =>
            /\ fut.state \in {"created", "suspended"}
            /\ ctl = Running
            /\ ctl' = Running
            /\ stack' = <<PollFrame>>]_vars

\* C14 witness: the second poll or a later one threw, no construct caught
\* it, and the driver of that poll escalated it.
C14_Witness ==
    /\ last.op = "poll_err"
    /\ IsThrown(last.caught)
    /\ last.caught.backtrace >= 2
    /\ fut.polls >= 2
    /\ fut.state = "panicked"
    /\ ctl.payload = inner(last.caught)

\* C15: the driver has been called once for each poll; the outcomes the
\* poll_fn closure returned are those Future::poll of the body produced, in
\* order, one for each poll that ended without an unwind; a poll that ends
\* so leaves the caller running with the outcome, ready with the value or
\* pending.
C15_PollPassThrough ==
    /\ fut.guards = fut.polls
    /\ fut.returned = fut.produced
    /\ Len(fut.returned) <= fut.polls
    /\ fut.state \in {"created", "suspended", "ready"} => Len(fut.returned) = fut.polls
    /\ last.op = "poll_ok" =>
          /\ ctl = Running
          /\ stack = <<>>
          /\ fut.returned[Len(fut.returned)] =
                (IF fut.state = "ready" THEN Ready(last.val) ELSE Pending)
          /\ fut.state = "ready" => last.val \in Vals
          /\ fut.state \in {"ready", "suspended"}

\* C15 witness: two polls were pending and a later one is ready with the
\* largest value.
C15_Witness ==
    /\ fut.state = "ready"
    /\ fut.polls >= 3
    /\ SubSeq(fut.returned, 1, 2) = <<Pending, Pending>>
    /\ fut.returned[Len(fut.returned)] = Ready(MaxVal)
    /\ fut.guards = fut.polls
====
